---- MODULE Spec2Model ----
(***************************************************************************)
(* Selection-state machine and validation engine of the weekly schedule    *)
(* selector.  Two variants of the component are modelled:                  *)
(*   "hybrid"  src/SearchScheduleSelector.tsx  (fresh start / adjacency /  *)
(*             check-in..check-out range fill, 500 ms deferred validation) *)
(*   "toggle"  src/unnamed/part_008            (pure toggle, 3000 ms       *)
(*             debounced validation)                                       *)
(* A JavaScript Set iterates in insertion order, so the selection is a     *)
(* duplicate-free sequence.  Every handler is one atomic step that ends    *)
(* with the effects React runs after the re-render it causes.  The         *)
(* callbacks onSelectionChange / onError are taken to keep their identity  *)
(* between renders.                                                        *)
(***************************************************************************)
EXTENDS Integers, Sequences, FiniteSets, TLC

VARIABLES
  variant,               \* "hybrid" | "toggle" | "none" (pure-function runs)
  minDays, maxDays, requireContiguous, initialSelection,   \* props
  selectedDays,          \* useState<Set<number>>, in insertion order
  isDragging, dragStart, \* useState(false), useState<number|null>(null)
  checkInDay,            \* hybrid only: useState<number|null>(null)
  showError, errorMessage,
  hideTimers,            \* pending setTimeout(() => setShowError(false), 3000)
  deferredTimer,         \* hybrid: pending 500 ms timer of the effect (its message)
  validationTimeout,     \* toggle: the timer handle kept in state
  timers,                \* toggle: pending 3000 ms validation timers
  onErrorArgs,           \* arguments of the onError calls of the last step
  onSelectionChangeArgs, \* arguments of the onSelectionChange calls of the last step
  lastOp,                \* the handler that ran in the last step and its branch
  gestures,              \* number of gesture handlers run so far
  fn,                    \* pure-function runs: function, arguments, result
  mounted,               \* the instance has not been unmounted
  pointer,               \* the mouse as the day cells see it (DayCell wiring)
  animation              \* the props, state and timers of the animation wrapper

propVars == <<variant, minDays, maxDays, requireContiguous, initialSelection>>
vars == <<variant, minDays, maxDays, requireContiguous, initialSelection,
          selectedDays, isDragging, dragStart, checkInDay, showError,
          errorMessage, hideTimers, deferredTimer, validationTimeout, timers,
          onErrorArgs, onSelectionChangeArgs, lastOp, gestures, fn,
          mounted, pointer, animation>>

-----------------------------------------------------------------------------
(* Bounds *)
MaxGestures == 3
MaxHideTimers == 2
MaxWiredGestures == 8
MaxClicks == 5
MaxCalls == 4

(* Program constants *)
TotalDays == 7
Days == 0..6
NoDay == -1            \* null of dragStart / checkInDay
Undefined == -2        \* DAYS_OF_WEEK[index] of an index that has no entry
NoTimer == "none"      \* no timer / no message
NoHandle == 0          \* null of validationTimeout

TooFewDays == "TooFewDays"
TooManyDays == "TooManyDays"
NonContiguous == "NonContiguous"

-----------------------------------------------------------------------------
(* JavaScript Set and Array helpers *)
ToSet(s) == {s[i] : i \in 1..Len(s)}
Has(s, x) == x \in ToSet(s)
Add(s, x) == IF Has(s, x) THEN s ELSE Append(s, x)
Delete(s, x) == SelectSeq(s, LAMBDA y : y # x)

MinOf(S) == CHOOSE x \in S : \A y \in S : x <= y
MaxOf(S) == CHOOSE x \in S : \A y \in S : x >= y

RECURSIVE SortSet(_)
SortSet(S) == IF S = {} THEN <<>> ELSE <<MinOf(S)>> \o SortSet(S \ {MinOf(S)})

\* Array.from(days).sort((a, b) => a - b)
SortAsc(s) == SortSet(ToSet(s))

\* new Set(array): first occurrences, in order
RECURSIVE NewSet(_)
NewSet(a) == IF Len(a) = 0 THEN <<>>
             ELSE LET r == NewSet(SubSeq(a, 1, Len(a) - 1))
                  IN Add(r, a[Len(a)])

DAYS_OF_WEEK(index) == IF index \in Days THEN index ELSE Undefined

\* Array.from(selectedDays).map(index => DAYS_OF_WEEK[index])
selectedDaysArray(s) == [i \in 1..Len(s) |-> DAYS_OF_WEEK(s[i])]

-----------------------------------------------------------------------------
(* Validator *)
\* mutant: the wrap-around check is missing
isContiguous_NoWrap(days) ==
  IF Len(days) = 0 THEN TRUE
  ELSE LET daysArray == SortAsc(days)
       IN \A i \in 2..Len(daysArray) : daysArray[i] - daysArray[i-1] = 1

isContiguous(days) ==
  IF Len(days) = 0 THEN TRUE
  ELSE LET daysArray == SortAsc(days)
           n == Len(daysArray)
           isNormalContiguous == \A i \in 2..n : daysArray[i] - daysArray[i-1] = 1
           gaps == {i \in 2..n : daysArray[i] - daysArray[i-1] > 1}
       IN IF isNormalContiguous THEN TRUE
          ELSE IF Cardinality(gaps) > 1 THEN FALSE
          ELSE IF gaps # {} THEN daysArray[n] = 6 /\ daysArray[1] = 0
          ELSE FALSE

\* mutant: the maximum is checked before the minimum
validateSelectionWith_MaxFirst(days, minD, maxD, reqC) ==
  LET count == Len(days)
  IN IF count = 0 THEN [valid |-> TRUE, error |-> NoTimer]
     ELSE IF count > maxD THEN [valid |-> FALSE, error |-> TooManyDays]
     ELSE IF count < minD THEN [valid |-> FALSE, error |-> TooFewDays]
     ELSE IF reqC /\ ~isContiguous(days) THEN [valid |-> FALSE, error |-> NonContiguous]
     ELSE [valid |-> TRUE, error |-> NoTimer]

validateSelectionWith(days, minD, maxD, reqC) ==
  LET count == Len(days)
  IN IF count = 0 THEN [valid |-> TRUE, error |-> NoTimer]
     ELSE IF count < minD THEN [valid |-> FALSE, error |-> TooFewDays]
     ELSE IF count > maxD THEN [valid |-> FALSE, error |-> TooManyDays]
     ELSE IF reqC /\ ~isContiguous(days) THEN [valid |-> FALSE, error |-> NonContiguous]
     ELSE [valid |-> TRUE, error |-> NoTimer]

validateSelection(days) ==
  validateSelectionWith(days, minDays, maxDays, requireContiguous)

-----------------------------------------------------------------------------
(* Run computations *)
\* mutant: fills between the smaller and the larger index, no wrap-around
RangeFill_Linear(checkIn, checkOut) ==
  LET start == IF checkIn < checkOut THEN checkIn ELSE checkOut
      end == IF checkIn > checkOut THEN checkIn ELSE checkOut
  IN [i \in 1..(end - start + 1) |-> start + (i - 1)]

\* hybrid handleDayClick, range fill from check-in to check-out
RangeFill(checkIn, checkOut) ==
  LET dayCount == IF checkOut >= checkIn THEN checkOut - checkIn + 1
                  ELSE (TotalDays - checkIn) + checkOut + 1
  IN NewSet([i \in 1..dayCount |-> (checkIn + (i - 1)) % TotalDays])

\* hybrid handleDragOver
DragRange(anchor, dayIndex) ==
  LET start == IF anchor < dayIndex THEN anchor ELSE dayIndex
      end == IF anchor > dayIndex THEN anchor ELSE dayIndex
  IN [i \in 1..(end - start + 1) |-> start + (i - 1)]

\* toggle-variant handleDragOver
DragRangeToggle(anchor, dayIndex) ==
  LET dayCount == IF dayIndex >= anchor THEN dayIndex - anchor + 1
                  ELSE (TotalDays - anchor) + dayIndex + 1
  IN NewSet([i \in 1..dayCount |-> (anchor + (i - 1)) % TotalDays])

-----------------------------------------------------------------------------
(* Shared pieces of the handlers *)
Op(name, day, branch) == [name |-> name, day |-> day, branch |-> branch]

IdleFn == [name |-> "idle", args |-> <<>>, result |-> <<>>]

\* displayError: show the popup, arm its auto-hide timer, forward to onError
\* (a state setter called after the unmount changes nothing)
displayError(error) ==
  /\ hideTimers < MaxHideTimers
  /\ errorMessage' = IF mounted THEN error ELSE errorMessage
  /\ showError' = IF mounted THEN TRUE ELSE showError
  /\ hideTimers' = hideTimers + 1
  /\ onErrorArgs' = <<error>>

NoError ==
  /\ UNCHANGED <<errorMessage, showError, hideTimers>>
  /\ onErrorArgs' = <<>>

\* mutant: the effect validates only while a check-in is pending
useEffect_Inverted(days, checkIn) ==
  /\ onSelectionChangeArgs' = <<selectedDaysArray(days)>>
  /\ deferredTimer' =
       IF Len(days) > 0 /\ checkIn # NoDay /\ ~validateSelection(days).valid
       THEN validateSelection(days).error
       ELSE NoTimer

\* mutant: the effect notifies only while something is selected
useEffect_SkipsEmpty(days, checkIn) ==
  /\ onSelectionChangeArgs' =
       IF Len(days) > 0 THEN <<selectedDaysArray(days)>> ELSE <<>>
  /\ deferredTimer' =
       IF Len(days) > 0 /\ checkIn = NoDay /\ ~validateSelection(days).valid
       THEN validateSelection(days).error
       ELSE NoTimer

\* hybrid effect on [selectedDays, checkInDay]: the cleanup of the previous run
\* clears its 500 ms timer, then the new run notifies and may arm a new timer
useEffect(days, checkIn) ==
  /\ onSelectionChangeArgs' = <<selectedDaysArray(days)>>
  /\ deferredTimer' =
       IF Len(days) > 0 /\ checkIn = NoDay /\ ~validateSelection(days).valid
       THEN validateSelection(days).error
       ELSE NoTimer

\* toggle-variant effect on [selectedDays]
useEffectToggle(days) ==
  /\ onSelectionChangeArgs' = <<selectedDaysArray(days)>>
  /\ UNCHANGED deferredTimer

\* the dependencies of the effect did not change: it does not run
NoEffect ==
  /\ onSelectionChangeArgs' = <<>>
  /\ UNCHANGED deferredTimer

\* The pointer when the handlers are called directly, in any order
FreePointer == [phase |-> "free", day |-> NoDay, over |-> NoDay, clicks |-> <<>>]

\* The pointer of a browser: button up, over no cell, no click dispatched yet
IdlePointer == [phase |-> "up", day |-> NoDay, over |-> NoDay, clicks |-> <<>>]

\* The pointer when toggleDay(i) and reset() are called as operations and the
\* calls of toggleDay are recorded
CallsPointer == [phase |-> "calls", day |-> NoDay, over |-> NoDay, clicks |-> <<>>]

\* The pointer when every handler is called as an operation, in any order,
\* for longer sequences of calls
HandlersPointer == [phase |-> "handlers", day |-> NoDay, over |-> NoDay, clicks |-> <<>>]

\* What the browser dispatches to the day cells: mouseenter when the pointer
\* moves onto a cell, mousedown on the cell under the pointer, mouseup on the
\* cell under the pointer, and click right after a mouseup on the cell that
\* got the mousedown; the reset button is outside the cells
Dispatch(event, dayIndex) ==
  IF pointer.phase \in {"free", "handlers"} THEN UNCHANGED pointer
  ELSE IF pointer.phase = "calls" THEN
    pointer' = IF event = "click"
               THEN [pointer EXCEPT !.clicks = Append(@, dayIndex)]
               ELSE pointer
  ELSE CASE event = "mouseenter" ->
              /\ pointer.phase \in {"up", "down"}
              /\ dayIndex # pointer.over
              /\ pointer' = [pointer EXCEPT !.over = dayIndex]
         [] event = "mousedown" ->
              /\ pointer.phase = "up"
              /\ dayIndex = pointer.over
              /\ pointer' = [pointer EXCEPT !.phase = "down", !.day = dayIndex]
         [] event = "mouseup" ->
              /\ pointer.phase = "down"
              /\ pointer.over # NoDay
              /\ pointer' = [pointer EXCEPT !.phase =
                               IF pointer.over = pointer.day THEN "released" ELSE "up"]
         [] event = "click" ->
              /\ pointer.phase = "released"
              /\ dayIndex = pointer.day
              /\ pointer' = [pointer EXCEPT !.phase = "up",
                                            !.clicks = Append(@, dayIndex)]
         [] event = "reset" ->
              /\ pointer.phase = "up"
              /\ pointer' = [pointer EXCEPT !.over = NoDay]

GestureLimit ==
  CASE pointer.phase = "free" -> MaxGestures
    [] pointer.phase = "calls" -> MaxClicks
    [] pointer.phase = "handlers" -> MaxCalls
    [] OTHER -> MaxWiredGestures

\* AnimatedScheduleSelector.tsx puts the selector in a container with
\* pointerEvents: isInteractive ? 'auto' : 'none'; part_002 and part_003 render
\* the selector outside any such container
Interactive ==
  animation.wrapper = "AnimatedScheduleSelector" => animation.isInteractive

\* a DOM event reaches its handler
Gesture(event, dayIndex) ==
  /\ mounted
  /\ Interactive
  /\ gestures < GestureLimit
  /\ gestures' = gestures + 1
  /\ Dispatch(event, dayIndex)
  /\ UNCHANGED <<propVars, fn, mounted, animation>>

\* a timer callback runs: never between a mouseup and the click it causes
Asynchronous ==
  /\ pointer.phase # "released"
  /\ UNCHANGED <<mounted, pointer, animation>>

-----------------------------------------------------------------------------
(* Hybrid variant: src/SearchScheduleSelector.tsx *)
\* mutant: toggling a day off clears the whole selection
toggleOff_ClearsAll(dayIndex) ==
  /\ lastOp' = Op("handleDayClick", dayIndex, "toggleOff")
  /\ selectedDays' = <<>>
  /\ checkInDay' = NoDay
  /\ NoError
  /\ useEffect(selectedDays', checkInDay')

\* mutant: toggling a day off keeps the pending anchor
toggleOff_KeepsAnchor(dayIndex) ==
  /\ lastOp' = Op("handleDayClick", dayIndex, "toggleOff")
  /\ selectedDays' = Delete(selectedDays, dayIndex)
  /\ UNCHANGED checkInDay
  /\ NoError
  /\ useEffect(selectedDays', checkInDay')

\* clicked an already selected day: toggle it off and drop the anchor
toggleOff(dayIndex) ==
  /\ lastOp' = Op("handleDayClick", dayIndex, "toggleOff")
  /\ selectedDays' = Delete(selectedDays, dayIndex)
  /\ checkInDay' = NoDay
  /\ NoError
  /\ useEffect(selectedDays', checkInDay')

\* no days selected yet: start fresh and remember the check-in day
freshStart(dayIndex) ==
  /\ lastOp' = Op("handleDayClick", dayIndex, "freshStart")
  /\ selectedDays' = <<dayIndex>>
  /\ checkInDay' = dayIndex
  /\ NoError
  /\ useEffect(selectedDays', checkInDay')

\* mutant: continuing the run day by day drops the pending anchor
adjacentDay_ClearsAnchor(dayIndex) ==
  /\ lastOp' = Op("handleDayClick", dayIndex, "adjacent")
  /\ selectedDays' = Add(selectedDays, dayIndex)
  /\ checkInDay' = NoDay
  /\ NoError
  /\ useEffect(selectedDays', checkInDay')

\* day-by-day mode: just add the neighbour
adjacentDay(dayIndex) ==
  /\ lastOp' = Op("handleDayClick", dayIndex, "adjacent")
  /\ selectedDays' = Add(selectedDays, dayIndex)
  /\ UNCHANGED checkInDay
  /\ NoError
  /\ useEffect(selectedDays', checkInDay')

\* mutant: the rejected range fill also clears the anchor
rangeFillRejected_ClearsAnchor(dayIndex, error) ==
  /\ lastOp' = Op("handleDayClick", dayIndex, "rangeFillRejected")
  /\ displayError(error)
  /\ UNCHANGED selectedDays
  /\ checkInDay' = NoDay
  /\ NoEffect

\* the filled range fails validation: report and return prev
rangeFillRejected(dayIndex, error) ==
  /\ lastOp' = Op("handleDayClick", dayIndex, "rangeFillRejected")
  /\ displayError(error)
  /\ UNCHANGED <<selectedDays, checkInDay>>
  /\ NoEffect

\* the filled range is valid: clear the anchor and return it
rangeFillAccepted(dayIndex, newSelection) ==
  /\ lastOp' = Op("handleDayClick", dayIndex, "rangeFill")
  /\ selectedDays' = newSelection
  /\ checkInDay' = NoDay
  /\ NoError
  /\ useEffect(selectedDays', checkInDay')

handleDayClick(dayIndex) ==
  /\ variant = "hybrid"
  /\ Gesture("click", dayIndex)
  /\ UNCHANGED <<isDragging, dragStart, validationTimeout, timers>>
  /\ IF isDragging THEN
       /\ lastOp' = Op("handleDayClick", dayIndex, "ignored")
       /\ UNCHANGED <<selectedDays, checkInDay>>
       /\ NoError
       /\ NoEffect
     ELSE IF Has(selectedDays, dayIndex) THEN toggleOff(dayIndex)
     ELSE IF Len(selectedDays) = 0 THEN freshStart(dayIndex)
     ELSE
       LET prevArray == SortAsc(selectedDays)
           minDay == prevArray[1]
           maxDay == prevArray[Len(prevArray)]
           isAdjacentAfter == dayIndex = (maxDay + 1) % TotalDays
           isAdjacentBefore == dayIndex = (minDay - 1 + TotalDays) % TotalDays
           checkIn == IF checkInDay # NoDay THEN checkInDay ELSE minDay
           newSelection == RangeFill(checkIn, dayIndex)
           validation == validateSelection(newSelection)
       IN IF isAdjacentAfter \/ isAdjacentBefore THEN adjacentDay(dayIndex)
          ELSE IF ~validation.valid
               THEN rangeFillRejected(dayIndex, validation.error)
               ELSE rangeFillAccepted(dayIndex, newSelection)

handleDragStart(dayIndex) ==
  /\ variant = "hybrid"
  /\ Gesture("mousedown", dayIndex)
  /\ lastOp' = Op("handleDragStart", dayIndex, "start")
  /\ isDragging' = TRUE
  /\ dragStart' = dayIndex
  /\ selectedDays' = <<dayIndex>>
  /\ UNCHANGED <<checkInDay, validationTimeout, timers>>
  /\ NoError
  /\ useEffect(selectedDays', checkInDay')

\* mutant: hovering fills without a drag in progress, from the hovered day
\* when there is no drag anchor
handleDragOver_NoGuard(dayIndex) ==
  /\ variant = "hybrid"
  /\ Gesture("mouseenter", dayIndex)
  /\ UNCHANGED <<isDragging, dragStart, checkInDay, validationTimeout, timers>>
  /\ NoError
  /\ lastOp' = Op("handleDragOver", dayIndex,
                  IF ~isDragging \/ dragStart = NoDay THEN "ignored" ELSE "fill")
  /\ selectedDays' = DragRange(IF dragStart = NoDay THEN dayIndex ELSE dragStart,
                               dayIndex)
  /\ useEffect(selectedDays', checkInDay')

handleDragOver(dayIndex) ==
  /\ variant = "hybrid"
  /\ Gesture("mouseenter", dayIndex)
  /\ UNCHANGED <<isDragging, dragStart, checkInDay, validationTimeout, timers>>
  /\ NoError
  /\ IF ~isDragging \/ dragStart = NoDay THEN
       /\ lastOp' = Op("handleDragOver", dayIndex, "ignored")
       /\ UNCHANGED selectedDays
       /\ NoEffect
     ELSE
       /\ lastOp' = Op("handleDragOver", dayIndex, "fill")
       /\ selectedDays' = DragRange(dragStart, dayIndex)
       /\ useEffect(selectedDays', checkInDay')

\* mutant: an invalid drag reports the error but keeps the set
handleDragEnd_KeepsSet ==
  /\ variant = "hybrid"
  /\ Gesture("mouseup", NoDay)
  /\ isDragging' = FALSE
  /\ dragStart' = NoDay
  /\ UNCHANGED <<checkInDay, validationTimeout, timers, selectedDays>>
  /\ NoEffect
  /\ LET validation == validateSelection(selectedDays)
     IN IF ~validation.valid THEN
          /\ lastOp' = Op("handleDragEnd", NoDay, "rejected")
          /\ displayError(validation.error)
        ELSE
          /\ lastOp' = Op("handleDragEnd", NoDay, "accepted")
          /\ NoError

\* mutant: the end of a drag leaves the drag anchor set
handleDragEnd_KeepsDragStart ==
  /\ variant = "hybrid"
  /\ Gesture("mouseup", NoDay)
  /\ isDragging' = FALSE
  /\ UNCHANGED <<dragStart, checkInDay, validationTimeout, timers>>
  /\ LET validation == validateSelection(selectedDays)
     IN IF ~validation.valid THEN
          /\ lastOp' = Op("handleDragEnd", NoDay, "rejected")
          /\ displayError(validation.error)
          /\ selectedDays' = <<>>
          /\ useEffect(selectedDays', checkInDay')
        ELSE
          /\ lastOp' = Op("handleDragEnd", NoDay, "accepted")
          /\ NoError
          /\ UNCHANGED selectedDays
          /\ NoEffect

handleDragEnd ==
  /\ variant = "hybrid"
  /\ Gesture("mouseup", NoDay)
  /\ isDragging' = FALSE
  /\ dragStart' = NoDay
  /\ UNCHANGED <<checkInDay, validationTimeout, timers>>
  /\ LET validation == validateSelection(selectedDays)
     IN IF ~validation.valid THEN
          /\ lastOp' = Op("handleDragEnd", NoDay, "rejected")
          /\ displayError(validation.error)
          /\ selectedDays' = <<>>
          /\ useEffect(selectedDays', checkInDay')
        ELSE
          /\ lastOp' = Op("handleDragEnd", NoDay, "accepted")
          /\ NoError
          /\ UNCHANGED selectedDays
          /\ NoEffect

\* the "Clear selection" button is rendered while selectedDays.size > 0
handleReset ==
  /\ variant = "hybrid"
  /\ Len(selectedDays) > 0
  /\ Gesture("reset", NoDay)
  /\ lastOp' = Op("handleReset", NoDay, "reset")
  /\ selectedDays' = <<>>
  /\ checkInDay' = NoDay
  /\ UNCHANGED <<isDragging, dragStart, validationTimeout, timers>>
  /\ NoError
  /\ useEffect(selectedDays', checkInDay')

\* the 500 ms timer of the effect fires: displayError(validation.error)
deferredTimerFires ==
  /\ variant = "hybrid"
  /\ deferredTimer # NoTimer
  /\ lastOp' = Op("deferredTimer", NoDay, "fired")
  /\ displayError(deferredTimer)
  /\ deferredTimer' = NoTimer
  /\ onSelectionChangeArgs' = <<>>
  /\ Asynchronous
  /\ UNCHANGED <<propVars, fn, gestures, selectedDays, isDragging, dragStart,
                 checkInDay, validationTimeout, timers>>

\* an auto-hide timer of displayError fires: setShowError(false)
hideTimerFires ==
  /\ variant \in {"hybrid", "toggle"}
  /\ hideTimers > 0
  /\ lastOp' = Op("hideTimer", NoDay, "fired")
  /\ hideTimers' = hideTimers - 1
  /\ showError' = IF mounted THEN FALSE ELSE showError
  /\ onErrorArgs' = <<>>
  /\ onSelectionChangeArgs' = <<>>
  /\ Asynchronous
  /\ UNCHANGED <<propVars, fn, gestures, selectedDays, isDragging, dragStart,
                 checkInDay, errorMessage, deferredTimer, validationTimeout,
                 timers>>

-----------------------------------------------------------------------------
(* Pure-toggle variant: src/unnamed/part_008 *)
TimerIds == 1..(Cardinality(timers) + 2)
NewTimerId ==
  MinOf({i \in TimerIds : i # validationTimeout /\ \A t \in timers : t.id # i})

\* mutant: a new timer is armed without clearing the previous one
scheduleValidation_NoCancel ==
  /\ timers' = timers \cup {[id |-> NewTimerId, days |-> selectedDays]}
  /\ validationTimeout' = NewTimerId

\* scheduleValidation: cancel the timer whose handle is in state, arm a new
\* one whose callback closes over the selectedDays of the current render
scheduleValidation ==
  /\ timers' = {t \in timers : t.id # validationTimeout}
                 \cup {[id |-> NewTimerId, days |-> selectedDays]}
  /\ validationTimeout' = NewTimerId

\* mutant: the click handler toggles also while a drag is in progress
handleDayClickToggle_NoGuard(dayIndex) ==
  /\ variant = "toggle"
  /\ Gesture("click", dayIndex)
  /\ UNCHANGED <<isDragging, dragStart, checkInDay>>
  /\ NoError
  /\ lastOp' = Op("handleDayClick", dayIndex,
                  IF isDragging THEN "ignored"
                  ELSE IF Has(selectedDays, dayIndex) THEN "toggleOff" ELSE "toggleOn")
  /\ selectedDays' = IF Has(selectedDays, dayIndex)
                     THEN Delete(selectedDays, dayIndex)
                     ELSE Add(selectedDays, dayIndex)
  /\ scheduleValidation
  /\ useEffectToggle(selectedDays')

handleDayClickToggle(dayIndex) ==
  /\ variant = "toggle"
  /\ Gesture("click", dayIndex)
  /\ UNCHANGED <<isDragging, dragStart, checkInDay>>
  /\ NoError
  /\ IF isDragging THEN
       /\ lastOp' = Op("handleDayClick", dayIndex, "ignored")
       /\ UNCHANGED <<selectedDays, validationTimeout, timers>>
       /\ NoEffect
     ELSE
       /\ lastOp' = Op("handleDayClick", dayIndex,
                       IF Has(selectedDays, dayIndex) THEN "toggleOff" ELSE "toggleOn")
       /\ selectedDays' = IF Has(selectedDays, dayIndex)
                          THEN Delete(selectedDays, dayIndex)
                          ELSE Add(selectedDays, dayIndex)
       /\ scheduleValidation
       /\ useEffectToggle(selectedDays')

handleDragStartToggle(dayIndex) ==
  /\ variant = "toggle"
  /\ Gesture("mousedown", dayIndex)
  /\ lastOp' = Op("handleDragStart", dayIndex, "start")
  /\ isDragging' = TRUE
  /\ dragStart' = dayIndex
  /\ selectedDays' = <<dayIndex>>
  /\ UNCHANGED <<checkInDay, validationTimeout, timers>>
  /\ NoError
  /\ useEffectToggle(selectedDays')

handleDragOverToggle(dayIndex) ==
  /\ variant = "toggle"
  /\ Gesture("mouseenter", dayIndex)
  /\ UNCHANGED <<isDragging, dragStart, checkInDay, validationTimeout, timers>>
  /\ NoError
  /\ IF ~isDragging \/ dragStart = NoDay THEN
       /\ lastOp' = Op("handleDragOver", dayIndex, "ignored")
       /\ UNCHANGED selectedDays
       /\ NoEffect
     ELSE
       /\ lastOp' = Op("handleDragOver", dayIndex, "fill")
       /\ selectedDays' = DragRangeToggle(dragStart, dayIndex)
       /\ useEffectToggle(selectedDays')

handleDragEndToggle ==
  /\ variant = "toggle"
  /\ Gesture("mouseup", NoDay)
  /\ isDragging' = FALSE
  /\ dragStart' = NoDay
  /\ UNCHANGED <<checkInDay, validationTimeout, timers>>
  /\ LET validation == validateSelection(selectedDays)
     IN IF Len(selectedDays) > 0 /\ ~validation.valid THEN
          /\ lastOp' = Op("handleDragEnd", NoDay, "rejected")
          /\ displayError(validation.error)
          /\ selectedDays' = <<>>
          /\ useEffectToggle(selectedDays')
        ELSE
          /\ lastOp' = Op("handleDragEnd", NoDay, "accepted")
          /\ NoError
          /\ UNCHANGED selectedDays
          /\ NoEffect

\* mutant: reset clears the selection but leaves the debounce timer armed
handleResetToggle_NoCancel ==
  /\ variant = "toggle"
  /\ Len(selectedDays) > 0
  /\ Gesture("reset", NoDay)
  /\ lastOp' = Op("handleReset", NoDay, "reset")
  /\ selectedDays' = <<>>
  /\ UNCHANGED <<timers, validationTimeout>>
  /\ UNCHANGED <<isDragging, dragStart, checkInDay>>
  /\ NoError
  /\ useEffectToggle(selectedDays')

handleResetToggle ==
  /\ variant = "toggle"
  /\ Len(selectedDays) > 0
  /\ Gesture("reset", NoDay)
  /\ lastOp' = Op("handleReset", NoDay, "reset")
  /\ selectedDays' = <<>>
  /\ IF validationTimeout # NoHandle
     THEN /\ timers' = {t \in timers : t.id # validationTimeout}
          /\ validationTimeout' = NoHandle
     ELSE UNCHANGED <<timers, validationTimeout>>
  /\ UNCHANGED <<isDragging, dragStart, checkInDay>>
  /\ NoError
  /\ useEffectToggle(selectedDays')

\* a 3000 ms validation timer fires and validates the set it closed over
validationTimerFires ==
  /\ variant = "toggle"
  /\ \E t \in timers :
       /\ timers' = timers \ {t}
       /\ IF Len(t.days) > 0 /\ ~validateSelection(t.days).valid
          THEN /\ lastOp' = Op("validationTimer", NoDay, "error")
               /\ displayError(validateSelection(t.days).error)
          ELSE /\ lastOp' = Op("validationTimer", NoDay, "quiet")
               /\ NoError
  /\ onSelectionChangeArgs' = <<>>
  /\ Asynchronous
  /\ UNCHANGED <<propVars, fn, gestures, selectedDays, isDragging, dragStart,
                 checkInDay, deferredTimer, validationTimeout>>

-----------------------------------------------------------------------------
(* Animation wrappers: src/AnimatedScheduleSelector.tsx and                *)
(* src/unnamed/part_002.  The wrapper renders a hybrid selector and plays  *)
(* the canned patterns with a chain of timers.                             *)
MaxSpeedChanges == 2

\* a pattern without a weeks entry applies to all four weeks
ANIMATION_PATTERNS ==
  << [selection |-> <<1, 2, 3, 4, 5>>, hasWeeks |-> FALSE, weeks |-> {}],
     [selection |-> <<1, 2, 3, 4>>, hasWeeks |-> TRUE, weeks |-> {0, 2}],
     [selection |-> <<0, 1, 2, 3>>, hasWeeks |-> TRUE, weeks |-> {0, 1}],
     [selection |-> <<4, 5, 6>>, hasWeeks |-> TRUE, weeks |-> {0}] >>

\* the ten-stage list of src/unnamed/part_003: nine entries
ANIMATION_PATTERNS_part_003 ==
  << [selection |-> <<1, 2, 3, 4, 5>>, hasWeeks |-> FALSE, weeks |-> {}],
     [selection |-> <<1, 2, 3, 4, 5>>, hasWeeks |-> TRUE, weeks |-> {0, 2}],
     [selection |-> <<1, 2, 3, 4, 5>>, hasWeeks |-> TRUE, weeks |-> {1, 3}],
     [selection |-> <<0, 1, 5, 6>>, hasWeeks |-> TRUE, weeks |-> {0, 1}],
     [selection |-> <<0, 1, 5, 6>>, hasWeeks |-> TRUE, weeks |-> {2, 3}],
     [selection |-> <<4, 5, 6>>, hasWeeks |-> TRUE, weeks |-> {0}],
     [selection |-> <<4, 5, 6>>, hasWeeks |-> TRUE, weeks |-> {1}],
     [selection |-> <<4, 5, 6>>, hasWeeks |-> TRUE, weeks |-> {2}],
     [selection |-> <<4, 5, 6>>, hasWeeks |-> TRUE, weeks |-> {3}] >>

\* the module-level ANIMATION_PATTERNS of a wrapper
patternsOf(wrapper) ==
  IF wrapper = "part_003" THEN ANIMATION_PATTERNS_part_003 ELSE ANIMATION_PATTERNS

Weeks == 0..3

\* animationSpeed in percent: 1, 0.5 and 0.25 of the playback controls
AnimationSpeeds == {100, 50, 25}

\* timing.INITIAL_DELAY = TIMING.INITIAL_DELAY / animationSpeed
INITIAL_DELAY(animationSpeed) == (300 * 100) \div animationSpeed

NoTimeout == "none"    \* timeoutId of an effect run that armed no timer

EmptyWeeks == [weekIndex \in Weeks |-> <<>>]

\* the selector is rendered without a wrapper
NoAnimation ==
  [wrapper |-> "none", enableAnimation |-> FALSE, stepByStepMode |-> FALSE,
   animationSpeed |-> 100, animationState |-> "idle",
   currentPatternIndex |-> 0, weekSelections |-> EmptyWeeks,
   isInteractive |-> TRUE, startTimer |-> FALSE, timeoutId |-> NoTimeout,
   states |-> <<>>, shown |-> <<>>, onAnimationCompleteCalls |-> 0,
   speedChanges |-> 0, currentStep |-> 0, stepChanges |-> 0,
   thrown |-> FALSE]

\* [0, 1, 2, 3].map(weekIndex => ...) of the showing-patterns case
newSelections(pattern) ==
  [weekIndex \in Weeks |->
     IF pattern.hasWeeks
     THEN IF weekIndex \in pattern.weeks THEN pattern.selection ELSE <<>>
     ELSE pattern.selection]

\* One run of the orchestration effect (the cleanup of the previous run has
\* cleared its timer): the timer it arms and the pattern it applies
orchestration(a) ==
  IF ~a.enableAnimation \/ a.animationState = "idle" \/ a.stepByStepMode
  THEN [a EXCEPT !.timeoutId = NoTimeout]
  ELSE CASE a.animationState = "expanding" ->
              [a EXCEPT !.timeoutId = "showPatterns"]
         [] a.animationState = "showing-patterns" ->
              [a EXCEPT !.weekSelections =
                           newSelections(patternsOf(a.wrapper)[a.currentPatternIndex + 1]),
                        !.timeoutId =
                           IF a.currentPatternIndex < Len(patternsOf(a.wrapper)) - 1
                           THEN "nextPattern" ELSE "collapse"]
         [] a.animationState = "collapsing" ->
              [a EXCEPT !.timeoutId = "complete"]
         [] OTHER -> [a EXCEPT !.timeoutId = NoTimeout]

\* One re-render of the auto-start effect: it runs again when enableAnimation
\* or timing.INITIAL_DELAY changed, clears its timer and arms a new one
autoStart(a, previous) ==
  IF a.enableAnimation # previous.enableAnimation
     \/ INITIAL_DELAY(a.animationSpeed) # INITIAL_DELAY(previous.animationSpeed)
  THEN [a EXCEPT !.startTimer = a.enableAnimation]
  ELSE a

\* what an observer of the wrapper has seen: the animation states entered and
\* the patterns put on display, in order
Observed(a, previous) ==
  [a EXCEPT !.states = IF a.animationState # previous.animationState
                       THEN Append(@, a.animationState) ELSE @,
            !.shown = IF a.animationState = "showing-patterns"
                         /\ (previous.animationState # "showing-patterns"
                             \/ a.currentPatternIndex # previous.currentPatternIndex)
                      THEN Append(@, a.currentPatternIndex) ELSE @]

\* React mounts a new selector when its key changes: the state of the old one
\* is dropped, its effect cleanup clears the 500 ms timer, and the callbacks
\* of its auto-hide timers set the state of an instance that is gone
Remount(initial) ==
  \E days \in {NewSet(initial)} :
    \E validation \in {validateSelectionWith(days, minDays, maxDays,
                                             requireContiguous)} :
      /\ initialSelection' = initial
      /\ selectedDays' = days
      /\ isDragging' = FALSE
      /\ dragStart' = NoDay
      /\ checkInDay' = NoDay
      /\ showError' = FALSE
      /\ errorMessage' = ""
      /\ hideTimers' = 0
      /\ deferredTimer' = IF Len(days) > 0 /\ ~validation.valid
                          THEN validation.error ELSE NoTimer
      /\ validationTimeout' = NoHandle
      /\ timers' = {}
      /\ onErrorArgs' = <<>>
      /\ onSelectionChangeArgs' = <<selectedDaysArray(days)>>

\* The render after the wrapper's state changed.  AnimatedScheduleSelector.tsx
\* passes weekSelections[0] as initialSelection and in the key of the
\* selector; part_002 draws the patterns on its own grid
Render(a) ==
  /\ animation' = a
  /\ IF a.wrapper = "AnimatedScheduleSelector"
        /\ a.weekSelections[0] # animation.weekSelections[0]
     THEN \E initial \in {a.weekSelections[0]} : Remount(initial)
     ELSE /\ onErrorArgs' = <<>>
          /\ onSelectionChangeArgs' = <<>>
          /\ UNCHANGED <<initialSelection, selectedDays, isDragging, dragStart,
                         checkInDay, showError, errorMessage, hideTimers,
                         deferredTimer, validationTimeout, timers>>
  /\ UNCHANGED <<variant, minDays, maxDays, requireContiguous, gestures, fn,
                 mounted, pointer>>

\* the auto-start timer fires: startAnimation(), then the orchestration
\* effect if animationState changed
autoStartTimerFires ==
  /\ animation.wrapper # "none"
  /\ animation.startTimer
  /\ lastOp' = Op("autoStartTimer", NoDay, animation.animationState)
  /\ LET started == [animation EXCEPT !.startTimer = FALSE,
                                      !.isInteractive = FALSE,
                                      !.animationState = "expanding"]
     IN \E rendered \in {Observed(IF animation.animationState # "expanding"
                                   THEN orchestration(started) ELSE started,
                                   animation)} :
          Render(rendered)

\* the callback of the timer the orchestration effect armed
timeoutCallback(a) ==
  CASE a.timeoutId = "showPatterns" ->
         [a EXCEPT !.animationState = "showing-patterns",
                   !.currentPatternIndex = 0]
    [] a.timeoutId = "nextPattern" ->
         [a EXCEPT !.currentPatternIndex = @ + 1]
    [] a.timeoutId = "collapse" ->
         [a EXCEPT !.animationState = "collapsing"]
    [] a.timeoutId = "complete" ->
         [a EXCEPT !.animationState = "complete",
                   !.isInteractive = TRUE,
                   !.weekSelections = EmptyWeeks,
                   !.onAnimationCompleteCalls = @ + 1]

\* the timer of the orchestration effect fires; animationState or
\* currentPatternIndex changes, so the effect runs again
animationTimerFires ==
  /\ animation.wrapper # "none"
  /\ animation.timeoutId # NoTimeout
  /\ lastOp' = Op("animationTimer", NoDay, animation.timeoutId)
  /\ \E rendered \in {Observed(orchestration(timeoutCallback(animation)),
                                 animation)} :
       Render(rendered)

\* the parent passes another animationSpeed (the speed buttons of the test
\* page): timing is recomputed, both effects have it in their dependencies
setAnimationSpeed(speed) ==
  /\ animation.wrapper # "none"
  /\ mounted
  /\ speed # animation.animationSpeed
  /\ animation.speedChanges < MaxSpeedChanges
  /\ lastOp' = Op("setAnimationSpeed", NoDay, animation.animationState)
  /\ LET changed == [animation EXCEPT !.animationSpeed = speed,
                                      !.speedChanges = @ + 1]
     IN \E rendered \in {Observed(autoStart(orchestration(changed), animation),
                                   animation)} :
          Render(rendered)

-----------------------------------------------------------------------------

(* Step-by-step mode of src/unnamed/part_002 (steps 0-7) and               *)
(* src/unnamed/part_003 (steps 0-13): the parent passes currentStep        *)
MaxSteps == 3

\* the last step of the branch that shows a pattern: currentStep <= 5 in
\* part_002, currentStep <= 11 in part_003
lastPatternStep(wrapper) == IF wrapper = "part_003" THEN 11 ELSE 5

\* the range of currentStep the wrapper documents
StepsOf(wrapper) == 0..(lastPatternStep(wrapper) + 2)

\* the step-by-step effect: map the step to the animation state
stepByStep(a) ==
  IF ~a.stepByStepMode THEN a
  ELSE CASE a.currentStep = 0 ->
              [a EXCEPT !.animationState = "idle", !.isInteractive = TRUE]
         [] a.currentStep = 1 ->
              [a EXCEPT !.animationState = "expanding", !.isInteractive = FALSE]
         [] a.currentStep >= 2 /\ a.currentStep <= lastPatternStep(a.wrapper) ->
              [a EXCEPT !.animationState = "showing-patterns",
                        !.currentPatternIndex = a.currentStep - 2,
                        !.isInteractive = FALSE]
         [] a.currentStep = lastPatternStep(a.wrapper) + 1 ->
              [a EXCEPT !.animationState = "collapsing", !.isInteractive = FALSE]
         [] a.currentStep = lastPatternStep(a.wrapper) + 2 ->
              [a EXCEPT !.animationState = "complete",
                        !.isInteractive = TRUE,
                        !.weekSelections = EmptyWeeks]
         [] OTHER -> a

\* ANIMATION_PATTERNS[currentPatternIndex] is an entry of the array (the
\* array is indexed from 0): past the last entry the lookup gives undefined
hasPattern(a) ==
  a.currentPatternIndex + 1 \in DOMAIN patternsOf(a.wrapper)

patternAt(a) == patternsOf(a.wrapper)[a.currentPatternIndex + 1]

\* the render reads ANIMATION_PATTERNS[currentPatternIndex].name for the
\* pattern label, the effects read pattern.weeks: a TypeError on undefined
throws(a) ==
  a.animationState = "showing-patterns" /\ ~hasPattern(a)

\* the pattern-selection effect of step-by-step mode
stepPattern(a) ==
  IF ~a.stepByStepMode \/ a.animationState # "showing-patterns" THEN a
  ELSE [a EXCEPT !.weekSelections = newSelections(patternAt(a))]

\* the parent passes another currentStep; an error thrown while rendering
\* is caught by no boundary, so React unmounts the tree
setCurrentStep(step) ==
  /\ animation.wrapper \in {"part_002", "part_003"}
  /\ mounted
  /\ animation.stepByStepMode
  /\ step # animation.currentStep
  /\ animation.stepChanges < MaxSteps
  /\ lastOp' = Op("setCurrentStep", NoDay, "step")
  /\ \E stepped \in {stepByStep([animation EXCEPT !.currentStep = step,
                                                  !.stepChanges = @ + 1])} :
       IF throws(stepped)
       THEN /\ animation' = [stepped EXCEPT !.thrown = TRUE]
            /\ mounted' = FALSE
            /\ deferredTimer' = NoTimer
            /\ onErrorArgs' = <<>>
            /\ onSelectionChangeArgs' = <<>>
            /\ UNCHANGED <<propVars, fn, gestures, selectedDays, isDragging,
                           dragStart, checkInDay, showError, errorMessage,
                           hideTimers, validationTimeout, timers, pointer>>
       ELSE \E rendered \in {Observed(orchestration(stepPattern(stepped)),
                                      animation)} :
              Render(rendered)

-----------------------------------------------------------------------------

(* The pointer outside the day cells: no element there has a handler of    *)
(* the selector (onMouseUp is on the DayCells only)                        *)
\* the pointer moves off the day cells, the button up or down
pointerLeaves ==
  /\ mounted
  /\ pointer.phase \in {"up", "down"}
  /\ pointer.over # NoDay
  /\ pointer' = [pointer EXCEPT !.over = NoDay]
  /\ lastOp' = Op("pointerLeaves", NoDay, pointer.phase)
  /\ onErrorArgs' = <<>>
  /\ onSelectionChangeArgs' = <<>>
  /\ UNCHANGED <<propVars, fn, gestures, mounted, animation, selectedDays,
                 isDragging, dragStart, checkInDay, showError, errorMessage,
                 hideTimers, deferredTimer, validationTimeout, timers>>

\* the button is released outside the day cells: no handler runs
releaseOutside ==
  /\ mounted
  /\ pointer.phase = "down"
  /\ pointer.over = NoDay
  /\ pointer' = [pointer EXCEPT !.phase = "up"]
  /\ lastOp' = Op("releaseOutside", NoDay, "none")
  /\ onErrorArgs' = <<>>
  /\ onSelectionChangeArgs' = <<>>
  /\ UNCHANGED <<propVars, fn, gestures, mounted, animation, selectedDays,
                 isDragging, dragStart, checkInDay, showError, errorMessage,
                 hideTimers, deferredTimer, validationTimeout, timers>>

-----------------------------------------------------------------------------

(* Construction and the specifications *)
Configs ==
  { [minDays |-> 2, maxDays |-> 5, requireContiguous |-> TRUE],
    [minDays |-> 1, maxDays |-> 3, requireContiguous |-> TRUE],
    [minDays |-> 2, maxDays |-> 7, requireContiguous |-> FALSE] }

DefaultConfig == [minDays |-> 2, maxDays |-> 5, requireContiguous |-> TRUE]

InitialSelections == { <<>>, <<0, 1, 2>> }

\* State of the selector after construction and the first run of the effects
MountSelector(v, cfg, initial, mouse) ==
  /\ variant = v
  /\ minDays = cfg.minDays
  /\ maxDays = cfg.maxDays
  /\ requireContiguous = cfg.requireContiguous
  /\ initialSelection = initial
  /\ selectedDays = NewSet(initial)
  /\ isDragging = FALSE
  /\ dragStart = NoDay
  /\ checkInDay = NoDay
  /\ showError = FALSE
  /\ errorMessage = ""
  /\ hideTimers = 0
  /\ deferredTimer =
       IF v = "hybrid" /\ Len(selectedDays) > 0
          /\ ~validateSelectionWith(selectedDays, cfg.minDays, cfg.maxDays,
                                    cfg.requireContiguous).valid
       THEN validateSelectionWith(selectedDays, cfg.minDays, cfg.maxDays,
                                  cfg.requireContiguous).error
       ELSE NoTimer
  /\ validationTimeout = NoHandle
  /\ timers = {}
  /\ onErrorArgs = <<>>
  /\ onSelectionChangeArgs = <<selectedDaysArray(selectedDays)>>
  /\ lastOp = Op("mount", NoDay, "mount")
  /\ gestures = 0
  /\ fn = IdleFn
  /\ mounted = TRUE
  /\ pointer = mouse

\* The selector rendered on its own, without an animation wrapper
MountWith(v, cfg, initial, mouse) ==
  /\ MountSelector(v, cfg, initial, mouse)
  /\ animation = NoAnimation

Mount(v, cfg, initial) == MountWith(v, cfg, initial, FreePointer)

Init ==
  \E v \in {"hybrid", "toggle"}, cfg \in Configs, initial \in InitialSelections :
    Mount(v, cfg, initial)

HybridNext ==
  \/ \E d \in Days : handleDayClick(d)
  \/ \E d \in Days : handleDragStart(d)
  \/ \E d \in Days : handleDragOver(d)
  \/ handleDragEnd
  \/ handleReset
  \/ deferredTimerFires
  \/ hideTimerFires

ToggleNext ==
  \/ \E d \in Days : handleDayClickToggle(d)
  \/ \E d \in Days : handleDragStartToggle(d)
  \/ \E d \in Days : handleDragOverToggle(d)
  \/ handleDragEndToggle
  \/ handleResetToggle
  \/ validationTimerFires

Next == HybridNext \/ ToggleNext

Spec == Init /\ [][Next]_vars

TypeOK ==
  /\ variant \in {"hybrid", "toggle"}
  /\ isDragging \in BOOLEAN
  /\ dragStart \in Days \cup {NoDay}
  /\ checkInDay \in Days \cup {NoDay}
  /\ hideTimers \in 0..MaxHideTimers
  /\ gestures \in 0..GestureLimit
  /\ mounted \in BOOLEAN
  /\ Len(selectedDays) = Cardinality(ToSet(selectedDays))

-----------------------------------------------------------------------------
(* Pure-function runs: the validator and the run computations applied to   *)
(* inputs drawn from bounded sets                                          *)
MaxMinDays == 3

Reverse(s) == [i \in 1..Len(s) |-> s[Len(s) + 1 - i]]

\* duplicate-free day sequences: ascending, descending and run order
DaySets ==
  {SortSet(S) : S \in SUBSET Days} \cup {Reverse(SortSet(S)) : S \in SUBSET Days}
    \cup {RangeFill(a, b) : a \in Days, b \in Days}

PureInit ==
  /\ variant = "none"
  /\ minDays = DefaultConfig.minDays
  /\ maxDays = DefaultConfig.maxDays
  /\ requireContiguous = DefaultConfig.requireContiguous
  /\ initialSelection = <<>>
  /\ selectedDays = <<>>
  /\ isDragging = FALSE
  /\ dragStart = NoDay
  /\ checkInDay = NoDay
  /\ showError = FALSE
  /\ errorMessage = ""
  /\ hideTimers = 0
  /\ deferredTimer = NoTimer
  /\ validationTimeout = NoHandle
  /\ timers = {}
  /\ onErrorArgs = <<>>
  /\ onSelectionChangeArgs = <<>>
  /\ lastOp = Op("none", NoDay, "none")
  /\ gestures = 0
  /\ fn = IdleFn
  /\ mounted = TRUE
  /\ pointer = FreePointer
  /\ animation = NoAnimation

PureFrame ==
  UNCHANGED <<propVars, selectedDays, isDragging, dragStart, checkInDay,
              showError, errorMessage, hideTimers, deferredTimer,
              validationTimeout, timers, onErrorArgs, onSelectionChangeArgs,
              lastOp, gestures, mounted, pointer, animation>>

ApplyRangeFill(start, end) ==
  /\ fn' = [name |-> "RangeFill", args |-> <<start, end>>,
            result |-> RangeFill(start, end)]
  /\ PureFrame

ApplyDragRange(start, end) ==
  /\ fn' = [name |-> "DragRange", args |-> <<start, end>>,
            result |-> DragRange(start, end)]
  /\ PureFrame

ApplyDragRangeToggle(start, end) ==
  /\ fn' = [name |-> "DragRangeToggle", args |-> <<start, end>>,
            result |-> DragRangeToggle(start, end)]
  /\ PureFrame

ApplyIsContiguous(days) ==
  /\ fn' = [name |-> "isContiguous", args |-> <<days>>,
            result |-> isContiguous(days)]
  /\ PureFrame

ApplyValidateSelection(days, minD, maxD, reqC) ==
  /\ fn' = [name |-> "validateSelection", args |-> <<days, minD, maxD, reqC>>,
            result |-> validateSelectionWith(days, minD, maxD, reqC)]
  /\ PureFrame

\* one application per run, from the idle state
PureNext ==
  /\ fn = IdleFn
  /\ \/ \E start \in Days, end \in Days : ApplyRangeFill(start, end)
     \/ \E start \in Days, end \in Days : ApplyDragRange(start, end)
     \/ \E start \in Days, end \in Days : ApplyDragRangeToggle(start, end)
     \/ \E days \in DaySets : ApplyIsContiguous(days)
     \/ \E days \in DaySets, minD \in 1..MaxMinDays, maxD \in 1..TotalDays,
           reqC \in BOOLEAN : ApplyValidateSelection(days, minD, maxD, reqC)

PureSpec == PureInit /\ [][PureNext]_vars

-----------------------------------------------------------------------------
(* Reference notions the properties are stated with *)
\* the circular run of the given length that starts at start
CircularRun(start, length) == {(start + i) % TotalDays : i \in 0..(length - 1)}

RunLength(start, end) == ((end - start + 7) % 7) + 1

IsCircularRun(S) ==
  \E start \in Days, length \in 1..TotalDays : S = CircularRun(start, length)

IsRunFn == fn.name \in {"RangeFill", "DragRange", "DragRangeToggle"}

-----------------------------------------------------------------------------
(* C2: for all start, end in 0..6 the run computed by click range-fill and *)
(* by drag-over (either variant) has (end - start + 7) % 7 + 1 elements    *)
(* and is the circular run of that length starting at start.               *)
C2_CircularRunEverywhere ==
  IsRunFn =>
    /\ Cardinality(ToSet(fn.result)) = RunLength(fn.args[1], fn.args[2])
    /\ ToSet(fn.result) = CircularRun(fn.args[1], RunLength(fn.args[1], fn.args[2]))

(* C4: isContiguous(S) is true exactly when S is empty or a circular run.  *)
C4_IsContiguousIffCircularRun ==
  fn.name = "isContiguous" =>
    (fn.result <=> (ToSet(fn.args[1]) = {} \/ IsCircularRun(ToSet(fn.args[1]))))

C4_Witness ==
  /\ fn.name = "isContiguous"
  /\ fn.args[1] = <<5, 6, 0, 1>>
  /\ fn.result = TRUE

(* C5: validate returns valid for the empty set, otherwise TooFewDays if   *)
(* |S| < minDays, otherwise TooManyDays if |S| > maxDays, otherwise        *)
(* NonContiguous if contiguity is required and S is not contiguous,        *)
(* otherwise valid; exactly one outcome.                                   *)
C5_ValidateOrder ==
  fn.name = "validateSelection" =>
    LET S == ToSet(fn.args[1])
        n == Cardinality(S)
        minD == fn.args[2]
        maxD == fn.args[3]
        reqC == fn.args[4]
        r == fn.result
        inRange == n > 0 /\ n >= minD /\ n <= maxD
    IN /\ r.valid <=> r.error = NoTimer
       /\ r.error \in {NoTimer, TooFewDays, TooManyDays, NonContiguous}
       /\ n = 0 => r.valid
       /\ (n > 0 /\ n < minD) => r.error = TooFewDays
       /\ (n > 0 /\ n >= minD /\ n > maxD) => r.error = TooManyDays
       /\ (inRange /\ reqC /\ ~IsCircularRun(S)) => r.error = NonContiguous
       /\ (inRange /\ (~reqC \/ IsCircularRun(S))) => r.valid

\* both size checks fail (minDays 3 > maxDays 1, two days): TooFewDays wins
C5_Witness ==
  /\ fn.name = "validateSelection"
  /\ Len(fn.args[1]) = 2
  /\ fn.args[2] = 3
  /\ fn.args[3] = 1
  /\ fn.result.error = TooFewDays

-----------------------------------------------------------------------------
(* Further specifications *)
\* the hybrid component with the default props, timers that are due do fire
HybridInit ==
  \E initial \in InitialSelections : Mount("hybrid", DefaultConfig, initial)

HybridFairSpec ==
  /\ HybridInit
  /\ [][HybridNext]_vars
  /\ WF_vars(deferredTimerFires)
  /\ WF_vars(hideTimerFires)

\* the caller may pass any number[] as initialSelection
AnyInitialSelections == InitialSelections \cup { <<7>> }

AnyInitialInit ==
  \E v \in {"hybrid", "toggle"}, cfg \in Configs, initial \in AnyInitialSelections :
    Mount(v, cfg, initial)

AnyInitialSpec == AnyInitialInit /\ [][Next]_vars

-----------------------------------------------------------------------------
(* Vocabulary of the properties over the component *)
Selection == ToSet(selectedDays)

IsDefaultConfig ==
  /\ minDays = 2
  /\ maxDays = 5
  /\ requireContiguous = TRUE

\* the step is a call of the click handler with day d
Clicked(d) ==
  /\ gestures' = gestures + 1
  /\ lastOp'.name = "handleDayClick"
  /\ lastOp'.day = d

NoPendingError ==
  /\ onErrorArgs = <<>>
  /\ deferredTimer = NoTimer
  /\ hideTimers = 0
  /\ ~showError

\* the validator's verdict on a set of days under the instance's props
VerdictOn(S) == validateSelection(SortSet(S))

\* toggleDay(d) on the current state reaches the range-fill branch
RangeFillCase(d) ==
  /\ variant = "hybrid"
  /\ ~isDragging
  /\ d \notin Selection
  /\ Selection # {}
  /\ d # (MaxOf(Selection) + 1) % TotalDays
  /\ d # (MinOf(Selection) + TotalDays - 1) % TotalDays

Anchor == IF checkInDay # NoDay THEN checkInDay ELSE MinOf(Selection)

Candidate(d) == CircularRun(Anchor, RunLength(Anchor, d))

-----------------------------------------------------------------------------
(* C1: hybrid, minDays=2, maxDays=5, requireContiguous, empty initial      *)
(* selection: toggleDay(1), toggleDay(4), toggleDay(3) give {1}, then      *)
(* {1,2,3,4}, then {1,2,4}; no error is reported after the first two       *)
(* calls, and after the third, with no further gesture, onError is         *)
(* eventually invoked with the contiguity message.                         *)
C1_Start ==
  /\ variant = "hybrid" /\ IsDefaultConfig /\ initialSelection = <<>>
  /\ gestures = 0

C1_After1 ==
  /\ variant = "hybrid" /\ IsDefaultConfig /\ initialSelection = <<>>
  /\ gestures = 1
  /\ lastOp.name = "handleDayClick" /\ lastOp.day = 1

C1_After2 ==
  /\ variant = "hybrid" /\ IsDefaultConfig /\ initialSelection = <<>>
  /\ gestures = 2
  /\ lastOp.name = "handleDayClick" /\ lastOp.day = 4
  /\ Selection = {1, 2, 3, 4}
  /\ checkInDay = NoDay
  /\ NoPendingError

C1_After3 ==
  /\ variant = "hybrid" /\ IsDefaultConfig /\ initialSelection = <<>>
  /\ gestures = 3
  /\ lastOp.name = "handleDayClick" /\ lastOp.day = 3
  /\ Selection = {1, 2, 4}
  /\ onErrorArgs = <<>>

C1_Scenario ==
  /\ [][(C1_Start /\ Clicked(1)) => (Selection = {1} /\ NoPendingError)']_vars
  /\ [][(C1_After1 /\ Clicked(4)) => C1_After2']_vars
  /\ [][(C1_After2 /\ Clicked(3)) => C1_After3']_vars
  /\ C1_After3 ~> (onErrorArgs = <<NonContiguous>> \/ gestures > 3)

C1_Witness ==
  /\ variant = "hybrid" /\ IsDefaultConfig /\ initialSelection = <<>>
  /\ gestures = 3
  /\ Selection = {1, 2, 4}
  /\ lastOp.name = "deferredTimer"
  /\ onErrorArgs = <<NonContiguous>>

(* C3: after startDrag(a) and any dragOver calls, the last being           *)
(* dragOver(b), the selection is the circular run from a to b ({a} if no   *)
(* dragOver occurred), in every variant.                                   *)
C3_DragReplace ==
  /\ (lastOp.name = "handleDragStart") => Selection = {lastOp.day}
  /\ (lastOp.name = "handleDragOver" /\ isDragging /\ dragStart # NoDay) =>
       Selection = CircularRun(dragStart, RunLength(dragStart, lastOp.day))

(* C6: when toggleDay(i) takes the range-fill branch and the candidate run *)
(* fails validation, the selection and the pending anchor are left as they *)
(* were and onError gets the validator's message for the candidate.        *)
C6_RejectedRangeFillRestores ==
  [][\A d \in Days :
       (Clicked(d) /\ RangeFillCase(d) /\ ~VerdictOn(Candidate(d)).valid) =>
         /\ selectedDays' = selectedDays
         /\ checkInDay' = checkInDay
         /\ onErrorArgs' = <<VerdictOn(Candidate(d)).error>>]_vars

C6_Witness ==
  /\ lastOp.name = "handleDayClick"
  /\ lastOp.branch = "rangeFillRejected"
  /\ checkInDay = 1
  /\ selectedDays = <<1>>
  /\ onErrorArgs = <<TooManyDays>>

(* C7: whenever toggleDay(i) takes the range-fill branch and changes the   *)
(* selection, the new selection is the circular run from the anchor to i,  *)
(* it passes validate, and the pending anchor is none afterwards.          *)
C7_AcceptedRangeFill ==
  [][\A d \in Days :
       (Clicked(d) /\ RangeFillCase(d) /\ selectedDays' # selectedDays) =>
         /\ ToSet(selectedDays') = Candidate(d)
         /\ validateSelection(selectedDays').valid
         /\ checkInDay' = NoDay]_vars

C7_Witness ==
  /\ lastOp = Op("handleDayClick", 2, "rangeFill")
  /\ Selection = {5, 6, 0, 1, 2}
  /\ checkInDay = NoDay

(* C8: endDrag leaves isDragging false and no drag anchor; a set that      *)
(* fails validation becomes empty and onError gets the message; a set that *)
(* passes is unchanged and no error is reported; so right after endDrag    *)
(* the selection is empty or valid.                                        *)
C8_EndDrag ==
  [][(lastOp'.name = "handleDragEnd" /\ gestures' = gestures + 1) =>
       /\ isDragging' = FALSE
       /\ dragStart' = NoDay
       /\ IF validateSelection(selectedDays).valid
          THEN selectedDays' = selectedDays /\ onErrorArgs' = <<>>
          ELSE /\ selectedDays' = <<>>
               /\ onErrorArgs' = <<validateSelection(selectedDays).error>>
       /\ (selectedDays' = <<>> \/ validateSelection(selectedDays').valid)]_vars

\* a drag over a valid initial selection ended invalid: the set is empty
C8_Witness ==
  /\ initialSelection = <<0, 1, 2>>
  /\ gestures = 2
  /\ lastOp = Op("handleDragEnd", NoDay, "rejected")
  /\ selectedDays = <<>>
  /\ onErrorArgs = <<TooFewDays>>
  /\ ~isDragging

(* C9: while isDragging is true no validation result is surfaced: onError  *)
(* is not invoked and the error popup is not shown.                        *)
C9_NoErrorWhileDragging ==
  [][(isDragging /\ isDragging') =>
       (onErrorArgs' = <<>> /\ (showError' => showError))]_vars

(* C10: the selection contains only indices in 0..6 in every reachable     *)
(* state, for any initialSelection supplied by the caller.                 *)
C10_IndicesInRange == Selection \subseteq Days

-----------------------------------------------------------------------------
(* Vocabulary of the notification properties *)
IsAscending(a) == \A i \in 1..Len(a), j \in 1..Len(a) : i < j => a[i] < a[j]

\* the payloads delivered to onSelectionChange in the last step
Notified == {onSelectionChangeArgs[i] : i \in 1..Len(onSelectionChangeArgs)}

(* C11: every onSelectionChange notification carries the WeekDay values of *)
(* the current selection ordered by index ascending, also for wrap-around  *)
(* selections such as {5,6,0,1,2}.                                         *)
C11_NotificationAscending ==
  \A days \in Notified :
    /\ ToSet(days) = {DAYS_OF_WEEK(x) : x \in Selection}
    /\ IsAscending(days)

\* the step is a click that reaches the range-fill branch with a candidate
\* run that fails validation
RangeFillRejectedStep ==
  /\ gestures' = gestures + 1
  /\ lastOp'.name = "handleDayClick"
  /\ RangeFillCase(lastOp'.day)
  /\ ~VerdictOn(Candidate(lastOp'.day)).valid

\* the step is a drag end on a set that fails validation
DragEndRejectedStep ==
  /\ gestures' = gestures + 1
  /\ lastOp'.name = "handleDragEnd"
  /\ ~validateSelection(selectedDays).valid

(* C12 as stated: every mutation is followed by a notification carrying    *)
(* the mutated set, including a candidate set that validation rejects, and *)
(* every rollback is followed by a corrective notification carrying the    *)
(* restored set.                                                           *)
C12_NotifyEveryMutation ==
  [][/\ (selectedDays' # selectedDays) =>
          /\ Len(onSelectionChangeArgs') >= 1
          /\ onSelectionChangeArgs'[Len(onSelectionChangeArgs')]
               = selectedDaysArray(selectedDays')
     /\ RangeFillRejectedStep =>
          /\ Len(onSelectionChangeArgs') = 2
          /\ ToSet(onSelectionChangeArgs'[1]) = Candidate(lastOp'.day)
          /\ onSelectionChangeArgs'[2] = selectedDaysArray(selectedDays)
     /\ DragEndRejectedStep =>
          /\ Len(onSelectionChangeArgs') >= 1
          /\ onSelectionChangeArgs'[Len(onSelectionChangeArgs')] = <<>>]_vars

(* C12 amended: every change of the selection set is followed by exactly   *)
(* one notification carrying the new set; a range-fill candidate that      *)
(* validation rejects is never committed, so the step delivers no          *)
(* notification and leaves the previous set; a failed drag end delivers    *)
(* one notification carrying the empty set.                                *)
C12_NotifyCommittedChanges ==
  [][/\ (selectedDays' # selectedDays) =>
          onSelectionChangeArgs' = <<selectedDaysArray(selectedDays')>>
     /\ RangeFillRejectedStep =>
          /\ onSelectionChangeArgs' = <<>>
          /\ selectedDays' = selectedDays
     /\ DragEndRejectedStep => onSelectionChangeArgs' = << <<>> >>]_vars

\* a drag that ended invalid in the hybrid variant: the empty set was notified
C12_Witness ==
  /\ variant = "hybrid"
  /\ lastOp = Op("handleDragEnd", NoDay, "rejected")
  /\ onSelectionChangeArgs = << <<>> >>
  /\ selectedDays = <<>>

\* the step is the firing of the debounce timer armed by the toggle that was
\* the last thing to happen (a quiet period after the last toggle)
DebounceFiresAfterToggle ==
  /\ variant = "toggle"
  /\ lastOp.name = "handleDayClick"
  /\ lastOp.branch # "ignored"
  /\ lastOp'.name = "validationTimer"

(* C13: in the pure-toggle variant the debounce timer, firing after a quiet *)
(* period, validates the selection current when it fires (the last toggle   *)
(* included): onError is invoked exactly when that set is non-empty and     *)
(* fails validation, with that set's error.                                 *)
C13_DebounceValidatesCurrentSet ==
  [][DebounceFiresAfterToggle =>
       onErrorArgs' = IF Len(selectedDays) > 0 /\ ~validateSelection(selectedDays).valid
                      THEN <<validateSelection(selectedDays).error>>
                      ELSE <<>>]_vars

\* the step is a pure-toggle click that toggles a day
ToggleStep ==
  /\ variant = "toggle"
  /\ gestures' = gestures + 1
  /\ lastOp'.name = "handleDayClick"
  /\ lastOp'.branch # "ignored"

(* C14: in the pure-toggle variant at most one debounce timer is pending in *)
(* every reachable state and it is the one whose handle is in state; each   *)
(* toggle cancels the timer armed before and arms a new one, so after a     *)
(* toggle the only pending timer is the one that toggle armed.              *)
C14_OneDebounceTimer ==
  /\ [](variant = "toggle" =>
          /\ Cardinality(timers) <= 1
          /\ \A t \in timers : t.id = validationTimeout)
  /\ [][ToggleStep =>
          /\ timers' = {[id |-> validationTimeout', days |-> selectedDays]}
          /\ \A t \in timers : t.id # validationTimeout']_vars

\* a second toggle has replaced the timer of the first
C14_Witness ==
  /\ variant = "toggle"
  /\ lastOp.name = "handleDayClick"
  /\ lastOp.branch = "toggleOn"
  /\ gestures = 2
  /\ Len(selectedDays) = 2
  /\ Cardinality(timers) = 1
  /\ validationTimeout = 2

\* no validation timer (500 ms deferred, 3000 ms debounce) is pending
NoValidationTimer ==
  /\ deferredTimer = NoTimer
  /\ timers = {}

(* C15: after reset() the selection is empty, the check-in anchor is none   *)
(* and no validation timer armed before the reset is left pending; from a   *)
(* state without pending validation timers no step other than a new gesture *)
(* invokes onError or arms one, so onError stays silent after the reset     *)
(* until a new gesture occurs.                                              *)
C15_ResetCancelsValidation ==
  /\ [](lastOp.name = "handleReset" =>
          /\ selectedDays = <<>>
          /\ checkInDay = NoDay
          /\ NoValidationTimer
          /\ onErrorArgs = <<>>)
  /\ [][(NoValidationTimer /\ gestures' = gestures) =>
          (onErrorArgs' = <<>> /\ NoValidationTimer')]_vars

\* pure-toggle variant: a toggle armed the debounce timer, then reset
C15_Witness ==
  /\ variant = "toggle"
  /\ initialSelection = <<>>
  /\ gestures = 2
  /\ ~isDragging
  /\ lastOp = Op("handleReset", NoDay, "reset")
  /\ validationTimeout = NoHandle
  /\ timers = {}

JustToggledOn(i) ==
  /\ lastOp.name = "handleDayClick"
  /\ lastOp.day = i
  /\ lastOp.branch \in {"freshStart", "adjacent", "toggleOn"}

\* the last operation was a pure-toggle click on day i that removed it
JustToggledOff(i) ==
  /\ variant = "toggle"
  /\ lastOp.name = "handleDayClick"
  /\ lastOp.day = i
  /\ lastOp.branch = "toggleOff"

(* C19: in a non-dragging state toggleDay(i) on a day i outside the         *)
(* selection that does not take the range-fill branch adds exactly i, and   *)
(* toggleDay(i) immediately after removes exactly i again, so the two calls *)
(* restore the set; in the pure-toggle variant the same holds for a day i   *)
(* inside the selection (removed, then added back).                         *)
C19_ToggleTwiceRestores ==
  [][(gestures' = gestures + 1 /\ lastOp'.name = "handleDayClick") =>
       LET i == lastOp'.day
       IN /\ (~isDragging /\ i \notin Selection /\ ~RangeFillCase(i)) =>
               /\ ToSet(selectedDays') = Selection \cup {i}
               /\ lastOp'.branch \in {"freshStart", "adjacent", "toggleOn"}
          /\ JustToggledOn(i) =>
               ToSet(selectedDays') = Selection \ {i}
          /\ (~isDragging /\ i \in Selection /\ variant = "toggle") =>
               /\ ToSet(selectedDays') = Selection \ {i}
               /\ lastOp'.branch = "toggleOff"
          /\ JustToggledOff(i) =>
               ToSet(selectedDays') = Selection \cup {i}]_vars

\* hybrid: Monday, then Tuesday added as a neighbour and toggled off again
C19_Witness ==
  /\ variant = "hybrid"
  /\ initialSelection = <<>>
  /\ gestures = 3
  /\ lastOp = Op("handleDayClick", 2, "toggleOff")
  /\ selectedDays = <<1>>

-----------------------------------------------------------------------------
(* Construction with props the caller got wrong: the component takes        *)
(* minDays and maxDays as given                                            *)
MalformedConfigs ==
  { [minDays |-> 3, maxDays |-> 2, requireContiguous |-> TRUE],
    [minDays |-> 0, maxDays |-> 5, requireContiguous |-> TRUE] }

MalformedInit ==
  \E v \in {"hybrid", "toggle"}, cfg \in MalformedConfigs : Mount(v, cfg, <<>>)

MalformedSpec == MalformedInit /\ [][Next]_vars

(* C18: a configuration with minDays > maxDays or minDays < 1 is rejected   *)
(* at construction: under it no gesture handler runs and no validation      *)
(* error ever surfaces.                                                     *)
C18_MalformedConfigRejected ==
  (minDays > maxDays \/ minDays < 1) =>
    /\ gestures = 0
    /\ lastOp.name = "mount"
    /\ onErrorArgs = <<>>
    /\ ~showError

-----------------------------------------------------------------------------
(* Teardown: React unmounts the instance and runs the cleanup of its        *)
(* effects.  Only the hybrid effect returns a cleanup (clearTimeout of its  *)
(* 500 ms timer); the timers of displayError and of scheduleValidation are  *)
(* held by nothing that is cleared.                                         *)
Unmount ==
  /\ mounted
  /\ pointer.phase # "released"
  /\ mounted' = FALSE
  /\ lastOp' = Op("unmount", NoDay, "unmount")
  /\ deferredTimer' = NoTimer
  /\ onErrorArgs' = <<>>
  /\ onSelectionChangeArgs' = <<>>
  /\ UNCHANGED <<propVars, fn, gestures, selectedDays, isDragging, dragStart,
                 checkInDay, showError, errorMessage, hideTimers,
                 validationTimeout, timers, pointer, animation>>

TeardownInit ==
  \E v \in {"hybrid", "toggle"}, initial \in InitialSelections :
    Mount(v, DefaultConfig, initial)

TeardownNext ==
  \/ HybridNext
  \/ ToggleNext
  \/ Unmount

TeardownSpec == TeardownInit /\ [][TeardownNext]_vars

(* C16: after the instance is unmounted none of its timers fires: no        *)
(* debounce-validation, deferred-error or auto-hide callback runs and       *)
(* onError is not invoked.                                                  *)
C16_NoTimerAfterTeardown ==
  [][~mounted =>
       /\ lastOp'.name \notin {"validationTimer", "deferredTimer", "hideTimer"}
       /\ onErrorArgs' = <<>>]_vars

-----------------------------------------------------------------------------
(* The hybrid component driven through the events of its day cells          *)
WiredInit == MountWith("hybrid", DefaultConfig, <<>>, IdlePointer)

WiredSpec == WiredInit /\ [][HybridNext]_vars

\* exactly a full click on Friday, then a full click on Tuesday: the pointer
\* enters the cell, the button goes down and up on it, the click follows
FridayThenTuesday ==
  /\ pointer.phase = "up"
  /\ pointer.clicks = <<5, 2>>
  /\ gestures = 8
  /\ lastOp.name = "handleDayClick"

(* C20: with the day cells' wiring (mouse-down -> handleDragStart, mouse-up *)
(* -> handleDragEnd, click -> handleDayClick) and the default               *)
(* configuration, a full click on Friday followed by a full click on        *)
(* Tuesday, from the empty selection, leaves {5,6,0,1,2} selected.          *)
C20_ClickFridayThenTuesday ==
  FridayThenTuesday => Selection = {5, 6, 0, 1, 2}

-----------------------------------------------------------------------------
(* The hybrid click handler called as the operation toggleDay(i), with      *)
(* reset() and the timers: sequences of clicks longer than a drag allows    *)
ClickConfigs ==
  { [minDays |-> 2, maxDays |-> 5, requireContiguous |-> TRUE],
    [minDays |-> 1, maxDays |-> 3, requireContiguous |-> TRUE] }

ClickInit ==
  \E cfg \in ClickConfigs : MountWith("hybrid", cfg, <<>>, CallsPointer)

ClickNext ==
  \/ \E d \in Days : handleDayClick(d)
  \/ handleReset
  \/ deferredTimerFires
  \/ hideTimerFires

ClickSpec == ClickInit /\ [][ClickNext]_vars

ClickFairSpec ==
  /\ ClickInit
  /\ [][ClickNext]_vars
  /\ WF_vars(deferredTimerFires)
  /\ WF_vars(hideTimerFires)

\* the calls so far were toggleDay(d), toggleDay(d+1), ... on consecutive days
ConsecutiveClicks ==
  /\ gestures = Len(pointer.clicks)
  /\ \A k \in 1..Len(pointer.clicks) :
       pointer.clicks[k] = (pointer.clicks[1] + k - 1) % TotalDays

(* C21: hybrid click handler, from the empty selection: toggleDay on k      *)
(* consecutive days d, d+1, ..., d+k-1 (mod 7) in that order, with          *)
(* 2 <= k <= maxDays, leaves exactly those k days selected, for every       *)
(* start day d, also across the Saturday-Sunday boundary.                   *)
C21_ConsecutiveClicksSelectRun ==
  (/\ ConsecutiveClicks
   /\ lastOp.name = "handleDayClick"
   /\ Len(pointer.clicks) >= 2
   /\ Len(pointer.clicks) <= maxDays)
    => Selection = ToSet(pointer.clicks)

-----------------------------------------------------------------------------
(* The pure-toggle component driven through the events of its day cells     *)
WiredToggleInit ==
  \E initial \in InitialSelections :
    MountWith("toggle", DefaultConfig, initial, IdlePointer)

WiredToggleNext ==
  \/ ToggleNext
  \/ hideTimerFires

WiredToggleSpec == WiredToggleInit /\ [][WiredToggleNext]_vars

\* the first thing the mouse did was one full click: enter the cell, press,
\* release, click
OneFullClick ==
  /\ pointer.phase = "up"
  /\ Len(pointer.clicks) = 1
  /\ gestures = 4
  /\ lastOp.name = "handleDayClick"

(* C22: pure-toggle variant with its day-cell wiring: a full click on day i *)
(* (press i, release, click i) flips only the membership of i; every other  *)
(* day is selected after the click exactly when it was before.              *)
C22_FullClickFlipsOneDay ==
  OneFullClick =>
    \A d \in Days \ {pointer.clicks[1]} :
      (d \in Selection) <=> (d \in ToSet(initialSelection))

(* C23: pure-toggle variant, clicks delivered as press, release, click: a   *)
(* click never surfaces an error immediately; neither the release that      *)
(* completes the click nor the click itself invokes onError (errors come    *)
(* only from the 3000 ms timer).                                            *)
C23_ClickDefersErrors ==
  [][(pointer'.phase = "released" \/ pointer.phase = "released") =>
       onErrorArgs' = <<>>]_vars

\* more days are selected than maxDays allows
TooManySelected == Len(selectedDays) > maxDays

(* C24: hybrid variant: whenever more than maxDays days are selected and no *)
(* further gesture occurs, eventually onError is invoked with the           *)
(* too-many-days message or the selection is reduced to at most maxDays.    *)
C24_TooManyEventuallyReported ==
  \A g \in 0..MaxClicks :
    (TooManySelected /\ gestures = g)
      ~> (onErrorArgs = <<TooManyDays>> \/ ~TooManySelected \/ gestures > g)

\* the step is a call of the hybrid click handler outside a drag
HybridClickStep ==
  /\ variant = "hybrid"
  /\ gestures' = gestures + 1
  /\ lastOp'.name = "handleDayClick"
  /\ ~isDragging

(* C25: hybrid click handler: toggleDay(i) on a day i that is selected      *)
(* removes exactly i, sets the pending check-in anchor to none and performs *)
(* no range fill (the toggle-off branch runs, no error is reported).        *)
C25_ToggleOffRemovesOneDay ==
  [][(HybridClickStep /\ lastOp'.day \in Selection) =>
       /\ ToSet(selectedDays') = Selection \ {lastOp'.day}
       /\ checkInDay' = NoDay
       /\ lastOp'.branch = "toggleOff"
       /\ onErrorArgs' = <<>>]_vars

\* Monday started the run, Tuesday continued it, Monday was toggled off
C25_Witness ==
  /\ variant = "hybrid"
  /\ initialSelection = <<>>
  /\ gestures = 3
  /\ lastOp = Op("handleDayClick", 1, "toggleOff")
  /\ selectedDays = <<2>>
  /\ checkInDay = NoDay

\* the step is toggleDay(i) on an unselected neighbour of the selection's
\* smallest or largest index
AdjacencyStep ==
  /\ HybridClickStep
  /\ Selection # {}
  /\ lastOp'.day \notin Selection
  /\ \/ lastOp'.day = (MaxOf(Selection) + 1) % TotalDays
     \/ lastOp'.day = (MinOf(Selection) + TotalDays - 1) % TotalDays

\* the toggle adds exactly the day and leaves the anchor alone
AdjacencyAddsDay ==
  /\ ToSet(selectedDays') = Selection \cup {lastOp'.day}
  /\ checkInDay' = checkInDay
  /\ lastOp'.branch = "adjacent"

-----------------------------------------------------------------------------
(* The hybrid handlers called as operations, one call deeper, under a       *)
(* configuration that accepts a one-day selection                           *)
HandlerInit ==
  MountWith("hybrid", [minDays |-> 1, maxDays |-> 3, requireContiguous |-> TRUE],
            <<>>, HandlersPointer)

HandlerSpec == HandlerInit /\ [][HybridNext]_vars

\* the step is a click that reaches the range-fill branch
RangeFillStep ==
  /\ HybridClickStep
  /\ lastOp'.branch \in {"rangeFill", "rangeFillRejected"}

(* C27: hybrid variant: the pending check-in anchor is set only by a fresh  *)
(* start; after a successful range fill, after any toggle-off and after     *)
(* reset it is none; and a range fill never uses an anchor recorded for an  *)
(* earlier selection: the anchor it uses is a day of the selection being    *)
(* extended.                                                                *)
C27_AnchorBelongsToSelection ==
  /\ [][(checkInDay' # checkInDay /\ checkInDay' # NoDay) =>
          (lastOp'.branch = "freshStart" /\ checkInDay' = lastOp'.day)]_vars
  /\ []((lastOp.branch \in {"rangeFill", "toggleOff", "reset"}) =>
          checkInDay = NoDay)
  /\ [][(RangeFillStep /\ checkInDay # NoDay) => checkInDay \in Selection]_vars

(* C28: while isDragging is true toggleDay(i) is ignored in both variants:  *)
(* the selection, the pending anchor, the drag state and every timer are    *)
(* unchanged by the click, and nothing is reported or notified.             *)
C28_ClickIgnoredWhileDragging ==
  [][(gestures' = gestures + 1 /\ lastOp'.name = "handleDayClick" /\ isDragging) =>
       /\ UNCHANGED <<selectedDays, checkInDay, isDragging, dragStart>>
       /\ UNCHANGED <<deferredTimer, timers, validationTimeout, hideTimers>>
       /\ UNCHANGED <<showError, errorMessage>>
       /\ onErrorArgs' = <<>>
       /\ onSelectionChangeArgs' = <<>>]_vars

\* pure-toggle variant: a drag from Tuesday is in progress, Wednesday clicked
C28_Witness ==
  /\ variant = "toggle"
  /\ isDragging
  /\ dragStart = 2
  /\ lastOp = Op("handleDayClick", 3, "ignored")
  /\ selectedDays = <<2>>
  /\ timers = {}

(* C29: dragOver(i) has no effect unless a drag is in progress: when        *)
(* isDragging is false or no drag anchor is set, the selection and all      *)
(* interaction state are unchanged, in both variants, and nothing is        *)
(* reported or notified.                                                    *)
C29_HoverWithoutDragIgnored ==
  [][(/\ gestures' = gestures + 1
      /\ lastOp'.name = "handleDragOver"
      /\ (~isDragging \/ dragStart = NoDay)) =>
       /\ UNCHANGED <<selectedDays, checkInDay, isDragging, dragStart>>
       /\ UNCHANGED <<deferredTimer, timers, validationTimeout, hideTimers>>
       /\ UNCHANGED <<showError, errorMessage>>
       /\ onErrorArgs' = <<>>
       /\ onSelectionChangeArgs' = <<>>]_vars

\* hybrid variant: Thursday hovered over while Sun-Mon-Tue is selected and no
\* button is down
C29_Witness ==
  /\ variant = "hybrid"
  /\ ~isDragging
  /\ dragStart = NoDay
  /\ lastOp = Op("handleDragOver", 4, "ignored")
  /\ selectedDays = <<0, 1, 2>>


-----------------------------------------------------------------------------
(* The animation wrappers in auto-play mode: the wrapper is mounted around *)
(* an empty hybrid selector, its timers fire, and the parent may pass      *)
(* another animationSpeed at any moment.  A pending timer fires in the end. *)
AnimationWrappers == {"AnimatedScheduleSelector", "part_002"}

AnimationInit ==
  \E w \in AnimationWrappers, cfg \in Configs, enable \in BOOLEAN :
    /\ MountSelector("hybrid", cfg, <<>>, FreePointer)
    /\ animation = [NoAnimation EXCEPT !.wrapper = w,
                                       !.enableAnimation = enable,
                                       !.startTimer = enable,
                                       !.states = <<"idle">>]

AnimationNext ==
  \/ autoStartTimerFires
  \/ animationTimerFires
  \/ \E speed \in AnimationSpeeds : setAnimationSpeed(speed)
  \/ deferredTimerFires
  \/ hideTimerFires

AnimationSpec == AnimationInit /\ [][AnimationNext]_vars

AnimationFairSpec ==
  /\ AnimationSpec
  /\ WF_vars(autoStartTimerFires)
  /\ WF_vars(animationTimerFires)

\* enableAnimation is true and the wrapper is not in step-by-step mode
AutoPlay == animation.enableAnimation /\ ~animation.stepByStepMode

AnimationStates ==
  <<"idle", "expanding", "showing-patterns", "collapsing", "complete">>

StateRank(state) == CHOOSE i \in 1..Len(AnimationStates) : AnimationStates[i] = state

IsPrefix(s, t) == Len(s) <= Len(t) /\ s = SubSeq(t, 1, Len(s))

AllPatterns == [i \in 1..Len(ANIMATION_PATTERNS) |-> i - 1]

\* the animation state stays or moves to the next state of the sequence
AnimationAdvances ==
  StateRank(animation'.animationState) \in
    {StateRank(animation.animationState), StateRank(animation.animationState) + 1}

\* the patterns put on display so far are the first ones, each once, and all
\* of them once the patterns are over
PatternsOnceInOrder ==
  /\ IsPrefix(animation.shown, AllPatterns)
  /\ animation.animationState \in {"collapsing", "complete"}
       => animation.shown = AllPatterns

\* onAnimationComplete has been invoked once in complete and not before
CompletedOnce ==
  animation.onAnimationCompleteCalls =
    IF animation.animationState = "complete" THEN 1 ELSE 0

-----------------------------------------------------------------------------
(* A user at the day cells while the intro animation plays: each of the    *)
(* three wrappers is mounted with enableAnimation around an empty hybrid   *)
(* selector with the default props, and gestures interleave with the       *)
(* timers of the animation.                                                *)
AllAnimationWrappers == {"AnimatedScheduleSelector", "part_002", "part_003"}

PlayingInit ==
  \E w \in AllAnimationWrappers :
    /\ MountSelector("hybrid", DefaultConfig, <<>>, FreePointer)
    /\ animation = [NoAnimation EXCEPT !.wrapper = w,
                                       !.enableAnimation = TRUE,
                                       !.startTimer = TRUE,
                                       !.states = <<"idle">>]

PlayingNext ==
  \/ autoStartTimerFires
  \/ animationTimerFires
  \/ HybridNext

PlayingSpec == PlayingInit /\ [][PlayingNext]_vars

\* the animation is on screen
Animating ==
  animation.animationState \in {"expanding", "showing-patterns", "collapsing"}

\* a gesture handler ran in this step
GestureStep == gestures' = gestures + 1

(* C31: the selector is non-interactive during the animation: while the     *)
(* animation state is expanding, showing-patterns or collapsing, day-cell   *)
(* gestures do not change the selection set, and once the state is complete *)
(* gestures are processed again; this holds for every variant of            *)
(* AnimatedScheduleSelector.                                                *)
C31_NoGesturesWhileAnimating ==
  /\ [][Animating /\ GestureStep => selectedDays' = selectedDays]_vars
  /\ [](animation.animationState = "complete" => Interactive /\ animation.isInteractive)


\* what onSelectionChange receives when the selector holds the first week of
\* a canned pattern
CannedSelections ==
  { selectedDaysArray(NewSet(newSelections(ANIMATION_PATTERNS[i])[0])) :
      i \in 1..Len(ANIMATION_PATTERNS) } \ {<<>>}

(* C32: the intro animation is display-only: while it shows its canned      *)
(* patterns the caller's onSelectionChange is not invoked with a canned     *)
(* pattern and onError is never invoked because of a canned pattern, for    *)
(* every configuration of minDays, maxDays and requireContiguous (no        *)
(* gesture is made in these runs, so every call stems from the animation).  *)
C32_AnimationDisplayOnly ==
  /\ \A i \in 1..Len(onSelectionChangeArgs) :
       onSelectionChangeArgs[i] \notin CannedSelections
  /\ onErrorArgs = <<>>


-----------------------------------------------------------------------------
(* Step-by-step mode: the wrapper is mounted with stepByStepMode at step 0 *)
(* and the parent passes steps of the documented range in any order.       *)
StepInit ==
  \E w \in {"part_002", "part_003"} :
    /\ MountSelector("hybrid", DefaultConfig, <<>>, FreePointer)
    /\ animation = [NoAnimation EXCEPT !.wrapper = w,
                                       !.stepByStepMode = TRUE,
                                       !.states = <<"idle">>]

StepNext == \E step \in StepsOf(animation.wrapper) : setCurrentStep(step)

StepSpec == StepInit /\ [][StepNext]_vars

\* the 14-step variant in step-by-step mode
FourteenSteps == animation.wrapper = "part_003" /\ animation.stepByStepMode

(* C33: in the 14-step step-by-step variant every currentStep in 0..13 maps *)
(* to a defined animation state, and for every step in 2..11 the state is   *)
(* showing-patterns with pattern index currentStep - 2 a valid index into   *)
(* ANIMATION_PATTERNS, so the pattern lookup never reads a missing pattern. *)
C33_StepsShowExistingPatterns ==
  FourteenSteps =>
    /\ animation.currentStep \in 0..13
    /\ ~animation.thrown
    /\ animation.currentStep \in 2..11 =>
         /\ animation.animationState = "showing-patterns"
         /\ animation.currentPatternIndex = animation.currentStep - 2
         /\ hasPattern(animation)


\* handleDragEnd ran in this step although no drag was in progress
StrayDragEnd == ~isDragging /\ lastOp'.name = "handleDragEnd" /\ gestures' = gestures + 1

(* C34: endDrag delivered when no drag is in progress (a release on a day   *)
(* cell without a preceding press on a cell) leaves the selection set       *)
(* unchanged and reports no error, in both variants; in particular a        *)
(* one-day selection that is being built by clicks is not cleared by it.    *)
C34_StrayDragEndIgnored ==
  [][StrayDragEnd => selectedDays' = selectedDays /\ onErrorArgs' = <<>>]_vars


(* C35: in the hybrid variant, in every reachable state in which the        *)
(* pending check-in anchor is set, the anchor day is a member of the        *)
(* selection set, for any interleaving of click, drag and reset gestures.   *)
C35_AnchorIsSelected ==
  (variant = "hybrid" /\ checkInDay # NoDay) => Has(selectedDays, checkInDay)


-----------------------------------------------------------------------------
(* The mouse of a browser on and off the day cells, both variants          *)
PointerInit ==
  \E v \in {"hybrid", "toggle"} : MountWith(v, DefaultConfig, <<>>, IdlePointer)

PointerNext ==
  \/ HybridNext
  \/ ToggleNext
  \/ pointerLeaves
  \/ releaseOutside

PointerSpec == PointerInit /\ [][PointerNext]_vars

\* the pointer button is not held down
ButtonReleased == pointer.phase \in {"up", "released"}

(* C36: every startDrag is followed by a state with isDragging false for    *)
(* every way the pointer can be released: after a press on a day cell the   *)
(* component is not in the dragging state once the pointer button has been  *)
(* released, including a release outside the day cells.                     *)
C36_ReleaseEndsDrag == ButtonReleased => ~isDragging


(* C37: in every reachable state isDragging is true if and only if the drag *)
(* anchor (dragStart) is set: startDrag sets both, endDrag clears both, and *)
(* no other operation changes either.                                       *)
C37_DraggingIffDragStart ==
  /\ [](isDragging <=> dragStart # NoDay)
  /\ [][lastOp'.name = "handleDragStart" =>
          isDragging' /\ dragStart' = lastOp'.day]_vars
  /\ [][lastOp'.name = "handleDragEnd" => ~isDragging' /\ dragStart' = NoDay]_vars
  /\ [][(isDragging' # isDragging \/ dragStart' # dragStart) =>
          lastOp'.name \in {"handleDragStart", "handleDragEnd"}]_vars

\* a drag over two days or more has just been ended and accepted
C37_Witness ==
  /\ initialSelection = <<>>
  /\ checkInDay = NoDay
  /\ lastOp = Op("handleDragEnd", NoDay, "accepted")
  /\ Len(selectedDays) >= 2
  /\ ~isDragging
  /\ dragStart = NoDay

====
